---- MODULE Spec2Model ----
(***************************************************************************)
(* Model of src/my_pmm.py: the MyPMM script strategy.                      *)
(*                                                                         *)
(* Numbers.  Spreads are fixed-point fractions in units of 1/Scale         *)
(* (Scale = 10^7, so the configured 0.0001 is 1000 units); prices are in   *)
(* the same units (ref_price * Scale); NATR is in whole percent; the       *)
(* inventory ratio is kept as an exact fraction <<num, den>>.  The         *)
(* arithmetic of the model is exact: the binary representation error of    *)
(* the float literals 0.0001 and 0.9 (about 1e-17 relative) and the        *)
(* 28-digit rounding of Decimal are below the resolution of the model.     *)
(*                                                                         *)
(* External layer.  cancel, buy and sell return without raising; a failed  *)
(* cancellation or placement is an outcome of the call that the connector  *)
(* reports later: a failed cancel leaves the order open, a failed          *)
(* placement opens no order.                                               *)
(***************************************************************************)
EXTENDS Integers, Sequences, FiniteSets, TLC

VARIABLES
    current_timestamp,  \* the clock's time as seen by the strategy
    create_timestamp,   \* MyPMM.create_timestamp: next allowed refresh
    trade_history,      \* MyPMM.trade_history
    active_orders,      \* connector: the strategy's open orders
    candles_df,         \* candle feed: the snapshot read by the last cycle
    ref_price,          \* connector: mid price
    base_balance,       \* connector: balance of the base asset
    quote_balance,      \* connector: balance of the quote asset
    log                 \* what the last handler did (calls made, values computed)

vars == <<current_timestamp, create_timestamp, trade_history, active_orders,
          candles_df, ref_price, base_balance, quote_balance, log>>

----------------------------------------------------------------------------
(* Bounds of the model *)

MaxTime == 20
TickSize == 5
MaxHistory == 2
MaxOpen == 3

(* Program constants *)

Scale == 10 ^ 7
bid_spread == 1000
ask_spread == 1000
order_refresh_time == 10
order_amount == 1
trading_pair == "ETH-USDT"
SkewTenths == 9
HighInventoryTenths == 7
LowInventoryTenths == 3

----------------------------------------------------------------------------
(* Input domains *)

CloseValues == {1, 2}
RsiValues == {1, 2}
NatrValues == {0, 1, 50, 100, 200}
Candles == [close : CloseValues, RSI_30 : RsiValues, NATR_30 : NatrValues]

RefPrices == {50, 100}
BaseBalances == {0, 3, 7, 9}
QuoteBalances == {0, 300, 700}

PricingSnapshots == {<<a, b>> : a \in Candles, b \in Candles}

CandleA == [close |-> 1, RSI_30 |-> 2, NATR_30 |-> 0]
CandleB == [close |-> 2, RSI_30 |-> 1, NATR_30 |-> 50]
LifecycleSnapshots == {<<>>, <<CandleA>>, <<CandleA, CandleB>>, <<CandleA, CandleB, CandleA>>}

----------------------------------------------------------------------------
(* Helpers *)

RECURSIVE SelectByIndex(_, _)
SelectByIndex(s, keep) ==
    IF s = <<>> THEN <<>>
    ELSE LET n == Len(s)
             front == SelectByIndex(SubSeq(s, 1, n - 1), keep)
         IN  IF keep[n] THEN Append(front, s[n]) ELSE front

NoOrder == [order_side |-> "NONE", price |-> 0, amount |-> 0, trading_pair |-> ""]

Call(fn, order, ok) == [fn |-> fn, order |-> order, ok |-> ok]

NoProposal ==
    [built |-> FALSE, inventory_ratio |-> <<1, 2>>,
     bearish_divergence |-> FALSE, bullish_divergence |-> FALSE,
     base_bid |-> 0, base_ask |-> 0, bid_spread |-> 0, ask_spread |-> 0,
     orders |-> <<>>]

----------------------------------------------------------------------------
(* get_inventory_ratio *)

get_inventory_ratio(base, quote, price) ==
    LET base_value == base * price
        total_value == base_value + quote
    IN  IF total_value = 0 THEN <<1, 2>> ELSE <<base_value, total_value>>

(* mutant: a non-strict threshold comparison *)
RatioAbove_inclusive(r, tenths) == r[1] * 10 >= tenths * r[2]

(* ratio > tenths/10 and ratio < tenths/10 on exact fractions *)
RatioAbove(r, tenths) == r[1] * 10 > tenths * r[2]
RatioBelow(r, tenths) == r[1] * 10 < tenths * r[2]

----------------------------------------------------------------------------
(* create_proposal *)

OrderCandidate(side, price) ==
    [order_side |-> side, price |-> price, amount |-> order_amount,
     trading_pair |-> trading_pair]

(* mutant: the multiplier ignores the volatility *)
spread_multiplier_flat(natr) == 100

spread_multiplier(natr) == 100 + natr

VolatilitySpread(base, natr) == (base * spread_multiplier(natr)) \div 100

(* mutant: a non-strict momentum comparison *)
BearishDivergence_nonstrict(rsi, rsi_prev, price, price_prev) ==
    rsi <= rsi_prev /\ price > price_prev

BearishDivergence(rsi, rsi_prev, price, price_prev) ==
    rsi < rsi_prev /\ price > price_prev

BullishDivergence(rsi, rsi_prev, price, price_prev) ==
    rsi > rsi_prev /\ price < price_prev

SkewAsk(ratio, bearish) == RatioAbove(ratio, HighInventoryTenths) /\ bearish

SkewBid(ratio, bearish, bullish) ==
    ~SkewAsk(ratio, bearish) /\ RatioBelow(ratio, LowInventoryTenths) /\ bullish

Tighten(spread) == (spread * SkewTenths) \div 10

(* mutant: the buy quote on the wrong side of the reference price *)
BuyPrice_above(ref, bid) == ref * (Scale + bid)

BuyPrice(ref, bid) == ref * (Scale - bid)

SellPrice(ref, ask) == ref * (Scale + ask)

create_proposal(df, ref, base, quote) ==
    LET inventory_ratio == get_inventory_ratio(base, quote, ref)
        n == Len(df)
        rsi == df[n].RSI_30
        rsi_prev == df[n - 1].RSI_30
        price == df[n].close
        price_prev == df[n - 1].close
        natr == df[n].NATR_30
        bid0 == VolatilitySpread(bid_spread, natr)
        ask0 == VolatilitySpread(ask_spread, natr)
        bearish == BearishDivergence(rsi, rsi_prev, price, price_prev)
        bullish == BullishDivergence(rsi, rsi_prev, price, price_prev)
        ask == IF SkewAsk(inventory_ratio, bearish) THEN Tighten(ask0) ELSE ask0
        bid == IF SkewBid(inventory_ratio, bearish, bullish) THEN Tighten(bid0) ELSE bid0
    IN  [built |-> TRUE, inventory_ratio |-> inventory_ratio,
         bearish_divergence |-> bearish, bullish_divergence |-> bullish,
         base_bid |-> bid0, base_ask |-> ask0, bid_spread |-> bid, ask_spread |-> ask,
         orders |-> <<OrderCandidate("BUY", BuyPrice(ref, bid)),
                      OrderCandidate("SELL", SellPrice(ref, ask))>>]

(* iloc[-1] / iloc[-2] on a frame with fewer than two rows raises *)
InsufficientData(df) == Len(df) < 2

----------------------------------------------------------------------------
(* adjust_proposal_to_budget: the connector's budget checker decides *)

adjust_proposal_to_budget(proposal) ==
    {SelectByIndex(proposal, keep) : keep \in [1 .. Len(proposal) -> BOOLEAN]}

----------------------------------------------------------------------------
(* place_orders / place_order *)

(* mutant: the SELL branch is missing *)
place_order_buy_only(order, ok) ==
    IF order.order_side = "BUY" THEN <<Call("buy", order, ok)>> ELSE <<>>

place_order(order, ok) ==
    IF order.order_side = "SELL" THEN <<Call("sell", order, ok)>>
    ELSE IF order.order_side = "BUY" THEN <<Call("buy", order, ok)>>
    ELSE <<>>

(* mutant: the loop stops at the first failed placement *)
place_orders_abort(proposal, ok) ==
    LET n == Len(proposal)
        failed == {i \in 1 .. n : ~ok[i]}
        last == IF failed = {} THEN n
                ELSE CHOOSE i \in failed : \A j \in failed : i <= j
    IN  [i \in 1 .. last |-> place_order(proposal[i], ok[i])[1]]

RECURSIVE place_orders(_, _)
place_orders(proposal, ok) ==
    IF proposal = <<>> THEN <<>>
    ELSE LET n == Len(proposal)
         IN  place_orders(SubSeq(proposal, 1, n - 1), ok) \o place_order(proposal[n], ok[n])

(* the orders the connector opened: the accepted placements *)
Opened(calls) ==
    LET acc == SelectSeq(calls, LAMBDA c : c.fn \in {"buy", "sell"} /\ c.ok)
    IN  [i \in 1 .. Len(acc) |-> acc[i].order]

----------------------------------------------------------------------------
(* cancel_all_orders *)

cancel_all_orders(orders, ok) ==
    [i \in 1 .. Len(orders) |-> Call("cancel", orders[i], ok[i])]

(* the orders still open afterwards: those whose cancel failed *)
StillOpen(orders, ok) ==
    SelectByIndex(orders, [i \in 1 .. Len(orders) |-> ~ok[i]])

----------------------------------------------------------------------------
(* on_tick *)

IsDue(create, now) == create <= now

NextCreateTimestamp(now) == order_refresh_time + now

(* the due branch of on_tick, lines 60-64 *)
RefreshCycle(now, df) ==
    \E cancel_ok \in [1 .. Len(active_orders) -> BOOLEAN] :
       LET cancels == cancel_all_orders(active_orders, cancel_ok)
           open == StillOpen(active_orders, cancel_ok)
       IN  IF InsufficientData(df)
           THEN /\ log' = [op |-> "on_tick", due |-> TRUE, raised |-> TRUE,
                           calls |-> cancels, p |-> NoProposal,
                           clipped |-> FALSE, adjusted |-> <<>>]
                /\ active_orders' = open
                /\ create_timestamp' = create_timestamp
           ELSE LET p == create_proposal(df, ref_price, base_balance, quote_balance)
                IN  \E adjusted \in adjust_proposal_to_budget(p.orders) :
                    \E submit_ok \in [1 .. Len(adjusted) -> BOOLEAN] :
                       LET placed == place_orders(adjusted, submit_ok)
                       IN  /\ Len(open) + Len(Opened(placed)) <= MaxOpen
                           /\ log' = [op |-> "on_tick", due |-> TRUE, raised |-> FALSE,
                                      calls |-> cancels
                                                \o <<Call("create_proposal", NoOrder, TRUE),
                                                     Call("adjust_candidates", NoOrder, TRUE)>>
                                                \o placed,
                                      p |-> p, clipped |-> TRUE, adjusted |-> adjusted]
                           /\ active_orders' = open \o Opened(placed)
                           /\ create_timestamp' = NextCreateTimestamp(now)

Idle ==
    /\ log' = [op |-> "on_tick", due |-> FALSE, raised |-> FALSE,
               calls |-> <<>>, p |-> NoProposal,
               clipped |-> FALSE, adjusted |-> <<>>]
    /\ UNCHANGED <<active_orders, create_timestamp>>

on_tick(now, df) ==
    IF IsDue(create_timestamp, now) THEN RefreshCycle(now, df) ELSE Idle

(* one clock tick: the clock sets current_timestamp and calls on_tick, which
   reads the candle feed's current snapshot *)
Tick ==
    /\ current_timestamp + TickSize <= MaxTime
    /\ current_timestamp' = current_timestamp + TickSize
    /\ \E df \in LifecycleSnapshots :
          /\ candles_df' = df
          /\ on_tick(current_timestamp + TickSize, df)
    /\ UNCHANGED <<trade_history, ref_price, base_balance, quote_balance>>

----------------------------------------------------------------------------
(* did_fill_order *)

(* mutant: the record is inserted at the front *)
did_fill_order_prepend(history, now, trade_type, price) ==
    <<[timestamp |-> now, type |-> trade_type, price |-> price]>> \o history

TradeRecord(now, trade_type, price) ==
    [timestamp |-> now, type |-> trade_type, price |-> price]

did_fill_order(history, now, trade_type, price) ==
    Append(history, TradeRecord(now, trade_type, price))

(* the connector reports a fill of an open order; a complete fill closes it *)
Fill ==
    /\ Len(trade_history) < MaxHistory
    /\ \E i \in 1 .. Len(active_orders), complete \in BOOLEAN :
          /\ trade_history' = did_fill_order(trade_history, current_timestamp,
                                             active_orders[i].order_side,
                                             active_orders[i].price)
          /\ active_orders' =
                IF complete
                THEN SelectByIndex(active_orders,
                                   [j \in 1 .. Len(active_orders) |-> j # i])
                ELSE active_orders
    /\ log' = [op |-> "did_fill_order", due |-> FALSE, raised |-> FALSE,
               calls |-> <<>>, p |-> NoProposal, clipped |-> FALSE, adjusted |-> <<>>]
    /\ UNCHANGED <<current_timestamp, create_timestamp, candles_df, ref_price,
                   base_balance, quote_balance>>

----------------------------------------------------------------------------
(* Specifications *)

InitLog ==
    [op |-> "init", due |-> FALSE, raised |-> FALSE, calls |-> <<>>,
     p |-> NoProposal, clipped |-> FALSE, adjusted |-> <<>>]

Init ==
    /\ current_timestamp = 0
    /\ create_timestamp = 0
    /\ trade_history = <<>>
    /\ active_orders = <<>>
    /\ candles_df = <<>>
    /\ ref_price = 100
    /\ base_balance = 9
    /\ quote_balance = 300
    /\ log = InitLog

Next == Tick \/ Fill

Spec == Init /\ [][Next]_vars

(* create_proposal on its own, over the whole input domain *)
PricingInit ==
    /\ current_timestamp = 0
    /\ create_timestamp = 0
    /\ trade_history = <<>>
    /\ active_orders = <<>>
    /\ candles_df \in PricingSnapshots
    /\ ref_price \in RefPrices
    /\ base_balance \in BaseBalances
    /\ quote_balance \in QuoteBalances
    /\ log = InitLog

Propose ==
    /\ log.op = "init"
    /\ log' = [op |-> "create_proposal", due |-> FALSE, raised |-> FALSE,
               calls |-> <<>>,
               p |-> create_proposal(candles_df, ref_price, base_balance, quote_balance),
               clipped |-> FALSE, adjusted |-> <<>>]
    /\ UNCHANGED <<current_timestamp, create_timestamp, trade_history, active_orders,
                   candles_df, ref_price, base_balance, quote_balance>>

PricingNext == Propose

PricingSpec == PricingInit /\ [][PricingNext]_vars

----------------------------------------------------------------------------
(* Properties *)

IsSubmit(c) == c.fn \in {"buy", "sell"}

(* the orders handed to buy/sell by a handler, in call order *)
Submitted(calls) ==
    LET sub == SelectSeq(calls, IsSubmit)
    IN  [i \in 1 .. Len(sub) |-> sub[i].order]

CancelCalls(calls) == SelectSeq(calls, LAMBDA c : c.fn = "cancel")

(* calls is: one cancel per order of open, create_proposal, adjust_candidates,
   then one buy/sell per order of adjusted *)
FullCycle(calls, open, adjusted) ==
    LET k == Len(open)
    IN  /\ Len(calls) = k + 2 + Len(adjusted)
        /\ \A i \in 1 .. k : calls[i].fn = "cancel" /\ calls[i].order = open[i]
        /\ calls[k + 1].fn = "create_proposal"
        /\ calls[k + 2].fn = "adjust_candidates"
        /\ \A i \in 1 .. Len(adjusted) :
              /\ IsSubmit(calls[k + 2 + i])
              /\ calls[k + 2 + i].order = adjusted[i]

(* C1: a tick before next_allowed_time makes no call and leaves the timer
   unchanged; a tick at or after it performs exactly one full cycle in the
   order cancel-all, propose, budget-clip, submit and ends with
   next_allowed_time = now + refresh_interval. *)
C1_TickGate ==
    [][log'.op = "on_tick" =>
         IF current_timestamp' < create_timestamp
         THEN /\ log'.calls = <<>>
              /\ create_timestamp' = create_timestamp
         ELSE /\ FullCycle(log'.calls, active_orders, log'.adjusted)
              /\ create_timestamp' = current_timestamp' + order_refresh_time]_vars

(* C2: a due tick that finds fewer than 2 candle samples cancels nothing,
   proposes nothing, submits nothing, and leaves the timer so that the next
   tick tries again. *)
C2_SkipOnInsufficientData ==
    [][(/\ log'.op = "on_tick"
        /\ create_timestamp <= current_timestamp'
        /\ Len(candles_df') < 2)
       => /\ log'.calls = <<>>
          /\ active_orders' = active_orders
          /\ create_timestamp' = create_timestamp]_vars

C4_FailureDoesNotStopCycle ==
    [][(/\ log'.op = "on_tick"
        /\ log'.due
        /\ \E i \in 1 .. Len(log'.calls) : ~log'.calls[i].ok)
       => /\ create_timestamp' = current_timestamp' + order_refresh_time
          /\ Len(CancelCalls(log'.calls)) = Len(active_orders)
          /\ Len(Submitted(log'.calls)) = Len(log'.adjusted)]_vars

(* C5: in every cycle the submitted orders are exactly the list the clipper
   returned; when that list is empty nothing is submitted, the trade history
   is not extended, and the timer is still advanced to
   now + refresh_interval. *)
C5_SubmitExactlyClipped ==
    [][log'.op = "on_tick" =>
         /\ Submitted(log'.calls) = log'.adjusted
         /\ (log'.clipped /\ log'.adjusted = <<>>)
            => /\ Submitted(log'.calls) = <<>>
               /\ trade_history' = trade_history
               /\ create_timestamp' = current_timestamp' + order_refresh_time]_vars

(* a due cycle whose clipper returned nothing, with fills already recorded *)
C5_Witness ==
    /\ log.op = "on_tick" /\ log.clipped /\ log.adjusted = <<>>
    /\ Submitted(log.calls) = <<>>
    /\ create_timestamp = current_timestamp + order_refresh_time
    /\ trade_history # <<>>

Prev == candles_df[Len(candles_df) - 1]
Cur == candles_df[Len(candles_df)]

(* C6: bearish_divergence is true exactly when momentum strictly decreases and
   close strictly increases, bullish_divergence exactly when momentum strictly
   increases and close strictly decreases, and the two are never both true. *)
C6_Divergence ==
    log.op = "create_proposal"
    => /\ log.p.bearish_divergence
          <=> (Cur.RSI_30 < Prev.RSI_30 /\ Cur.close > Prev.close)
       /\ log.p.bullish_divergence
          <=> (Cur.RSI_30 > Prev.RSI_30 /\ Cur.close < Prev.close)
       /\ (Cur.RSI_30 = Prev.RSI_30 \/ Cur.close = Prev.close)
          => (~log.p.bearish_divergence /\ ~log.p.bullish_divergence)
       /\ ~(log.p.bearish_divergence /\ log.p.bullish_divergence)

(* a proposal built on equal momentum and rising price: no divergence *)
C6_Witness ==
    /\ log.op = "create_proposal"
    /\ Cur.RSI_30 = Prev.RSI_30 /\ Cur.close > Prev.close
    /\ ~log.p.bearish_divergence /\ ~log.p.bullish_divergence

(* C7: the skew multiplies ask_spread by 0.9 exactly when ratio > 0.7 and
   bearish divergence, bid_spread by 0.9 exactly when that does not hold and
   ratio < 0.3 and bullish divergence; otherwise (ratio exactly 0.7 or 0.3
   included) both spreads keep their un-skewed values; at most one spread
   changes and none is widened. *)
C7_Skew ==
    log.op = "create_proposal"
    => LET r == log.p.inventory_ratio
           high == r[1] * 10 > 7 * r[2]
           low == r[1] * 10 < 3 * r[2]
           skewAsk == high /\ log.p.bearish_divergence
           skewBid == ~skewAsk /\ low /\ log.p.bullish_divergence
       IN  /\ log.p.ask_spread * 10 = log.p.base_ask * (IF skewAsk THEN 9 ELSE 10)
           /\ log.p.bid_spread * 10 = log.p.base_bid * (IF skewBid THEN 9 ELSE 10)
           /\ log.p.ask_spread = log.p.base_ask \/ log.p.bid_spread = log.p.base_bid
           /\ log.p.ask_spread <= log.p.base_ask
           /\ log.p.bid_spread <= log.p.base_bid

(* ratio exactly 0.7 with bearish divergence: no skew *)
C7_Witness ==
    /\ log.op = "create_proposal"
    /\ log.p.inventory_ratio[1] * 10 = 7 * log.p.inventory_ratio[2]
    /\ log.p.bearish_divergence
    /\ log.p.ask_spread = log.p.base_ask
    /\ log.p.bid_spread = log.p.base_bid

(* C8: create_proposal returns exactly two intents, a Buy then a Sell, for the
   same pair and the fixed amount, at ref_price * (1 - bid_spread) and
   ref_price * (1 + ask_spread), so that buy < ref_price < sell. *)
C8_Proposal ==
    (/\ log.op = "create_proposal"
     /\ ref_price > 0
     /\ 0 < log.p.bid_spread /\ log.p.bid_spread < Scale
     /\ log.p.ask_spread > 0)
    => LET o == log.p.orders
       IN  /\ Len(o) = 2
           /\ o[1].order_side = "BUY" /\ o[2].order_side = "SELL"
           /\ o[1].trading_pair = trading_pair /\ o[2].trading_pair = trading_pair
           /\ o[1].amount = order_amount /\ o[2].amount = order_amount
           /\ o[1].price = ref_price * Scale - ref_price * log.p.bid_spread
           /\ o[2].price = ref_price * Scale + ref_price * log.p.ask_spread
           /\ o[1].price < ref_price * Scale
           /\ ref_price * Scale < o[2].price

(* ref_price 100, no volatility, no skew: 99.99 and 100.01 *)
C8_Witness ==
    /\ log.op = "create_proposal"
    /\ ref_price = 100
    /\ log.p.bid_spread = 1000 /\ log.p.ask_spread = 1000
    /\ log.p.orders[1].price = 999900000
    /\ log.p.orders[2].price = 1000100000

(* C9: before skew each spread is base_spread * (1 + volatility/100): the base
   spread at volatility 0, twice it at volatility 100, strictly smaller than
   the spread of every larger volatility, and > 0. *)
C9_VolatilitySpread ==
    log.op = "create_proposal"
    => LET natr == Cur.NATR_30
       IN  /\ log.p.base_bid * 100 = bid_spread * (100 + natr)
           /\ log.p.base_ask * 100 = ask_spread * (100 + natr)
           /\ natr = 0 => (log.p.base_bid = bid_spread /\ log.p.base_ask = ask_spread)
           /\ natr = 100
              => (log.p.base_bid = 2 * bid_spread /\ log.p.base_ask = 2 * ask_spread)
           /\ \A v \in NatrValues :
                 v > natr => /\ VolatilitySpread(bid_spread, v) > log.p.base_bid
                             /\ VolatilitySpread(ask_spread, v) > log.p.base_ask
           /\ log.p.base_bid > 0 /\ log.p.base_ask > 0

(* volatility 100 doubles the base spread *)
C9_Witness ==
    /\ log.op = "create_proposal"
    /\ Cur.NATR_30 = 100
    /\ log.p.base_bid = 2 * bid_spread

(* C10: the trade history is append-only: a fill appends exactly one record
   {timestamp, side, price} at the end, leaves the timer unchanged and makes
   no cancel or submit call; a tick leaves the history unchanged; no step
   removes, reorders or modifies a record. *)
C10_AppendOnlyHistory ==
    [][/\ Len(trade_history') >= Len(trade_history)
       /\ SubSeq(trade_history', 1, Len(trade_history)) = trade_history
       /\ log'.op = "on_tick" => trade_history' = trade_history
       /\ log'.op = "did_fill_order"
          => /\ \E i \in 1 .. Len(active_orders) :
                   trade_history' =
                      Append(trade_history,
                             [timestamp |-> current_timestamp,
                              type |-> active_orders[i].order_side,
                              price |-> active_orders[i].price])
             /\ create_timestamp' = create_timestamp
             /\ log'.calls = <<>>]_vars

(* a second fill recorded behind an earlier one *)
C10_Witness ==
    /\ log.op = "did_fill_order"
    /\ Len(trade_history) = 2
    /\ trade_history[1] # trade_history[2]

====
